---- MODULE Spec2Model ----
(***************************************************************************)
(* Model of package body (src/body/body_modifier.go): the response-body    *)
(* override modifier of the martian proxy.                                 *)
(*                                                                         *)
(* State: the parse registry, the configuration documents still to be      *)
(* decoded, the Modifiers built so far, the backing arrays of their body   *)
(* slices, and per HTTP transaction the martian.Context, the request, the  *)
(* response and the body streams of the response.                          *)
(***************************************************************************)
EXTENDS Integers, Sequences, FiniteSets, TLC

VARIABLES
    registry,   \* parse registry: type name -> decoder function name
    pending,    \* configuration documents the loader has not decoded yet
    ret,        \* what the last modifierFromJSON call returned
    mods,       \* the Modifiers constructed so far, in construction order
    built,      \* history: for each Modifier, the arguments it was built from
    decoded,    \* history: every document decoded so far, with the error returned
    heap,       \* backing arrays of byte slices; a slice value is an index here
    caller,     \* slices a caller of NewModifier still holds a reference to
    ctx,        \* ctx[t]: the martian.Context of transaction t
    req,        \* req[t]: the http.Request of transaction t
    res,        \* res[t]: the http.Response of transaction t
    before,     \* history: res[t] as the last ModifyResponse call found it
    streams,    \* streams[t]: every body stream res[t] ever held
    readers,    \* bytes.Reader objects: id -> [s (slice), i (read index)]
    got,        \* got[t]: bytes transaction t has read from its current body
    phase,      \* phase[t]: where the pipeline is in transaction t
    calls,      \* calls[t]: hook invocations so far, [req, res]
    outcome,    \* outcome[t]: how the last hook call on t ended
    log         \* log[t]: Close/install events on res[t].Body, in program order

vars == <<registry, pending, ret, mods, built, decoded, heap, caller, ctx, req,
          res, before, streams, readers, got, phase, calls, outcome, log>>

----------------------------------------------------------------------------
(* Bounds of the model. *)

MaxLen == 4        \* longest body text of a configuration document
MaxMods == 2       \* most documents one configuration holds
NumTxns == 2       \* concurrent transactions
MaxReqCalls == 2   \* ModifyRequest invocations per transaction
MaxResCalls == 2   \* ModifyResponse invocations per transaction
MaxRead == 2       \* largest buffer handed to Read
MaxCallerMods == 1 \* Modifiers a caller builds with NewModifier directly
MaxSlice == 2      \* longest slice such a caller builds one from

Txns == 1..NumTxns

----------------------------------------------------------------------------
(* encoding/base64, StdEncoding, as DecodeString computes it.              *)

B64Alphabet ==
    << "A","B","C","D","E","F","G","H","I","J","K","L","M","N","O","P",
       "Q","R","S","T","U","V","W","X","Y","Z","a","b","c","d","e","f",
       "g","h","i","j","k","l","m","n","o","p","q","r","s","t","u","v",
       "w","x","y","z","0","1","2","3","4","5","6","7","8","9","+","/" >>

PadChar == "="

IsNewline(c) == c = "\n" \/ c = "\r"

\* decodeMap[in]: the 6-bit value of a character, 255 (0xff) when it has none.
DecodeMap(c) ==
    IF \E i \in 1..64 : B64Alphabet[i] = c
    THEN (CHOOSE i \in 1..64 : B64Alphabet[i] = c) - 1
    ELSE 255

\* The first index >= si of src that holds no newline (Len(src)+1 at the end).
RECURSIVE SkipNewlines(_, _)
SkipNewlines(src, si) ==
    IF si <= Len(src) /\ IsNewline(src[si]) THEN SkipNewlines(src, si + 1) ELSE si

\* Faulty variant of Quantum: the 24-bit value is cut into bytes low byte first.
QuantumLittleEndian(dbuf, dlen) ==
    LET d(k) == IF k <= Len(dbuf) THEN dbuf[k] ELSE 0
        val  == d(1) * 262144 + d(2) * 4096 + d(3) * 64 + d(4)
        all  == << val % 256, (val \div 256) % 256, (val \div 65536) % 256 >>
    IN  SubSeq(all, 1, dlen - 1)

\* "Convert 4x 6bit source bytes into 3 bytes": the first dlen-1 bytes of the
\* 24-bit value of dbuf (missing digits are zero; trailing bits are not checked,
\* StdEncoding is not strict).
Quantum(dbuf, dlen) ==
    LET d(k) == IF k <= Len(dbuf) THEN dbuf[k] ELSE 0
        val  == d(1) * 262144 + d(2) * 4096 + d(3) * 64 + d(4)
        all  == << (val \div 65536) % 256, (val \div 256) % 256, val % 256 >>
    IN  SubSeq(all, 1, dlen - 1)

CorruptInput == [ok |-> FALSE, bytes |-> << >>]

\* decodeQuantum, repeated by Decode until the input ends: dbuf holds the
\* digits of the quantum being read, dst the bytes decoded so far.
RECURSIVE DecodeFrom(_, _, _, _)
DecodeFrom(src, si, dbuf, dst) ==
    IF si > Len(src)
    THEN IF Len(dbuf) = 0 THEN [ok |-> TRUE, bytes |-> dst] ELSE CorruptInput
    ELSE LET in == src[si] IN
         IF DecodeMap(in) # 255
         THEN LET d == Append(dbuf, DecodeMap(in)) IN
              IF Len(d) = 4
              THEN DecodeFrom(src, si + 1, << >>, dst \o Quantum(d, 4))
              ELSE DecodeFrom(src, si + 1, d, dst)
         ELSE IF IsNewline(in) THEN DecodeFrom(src, si + 1, dbuf, dst)
         ELSE IF in # PadChar THEN CorruptInput
         ELSE IF Len(dbuf) < 2 THEN CorruptInput          \* incorrect padding
         ELSE LET k    == SkipNewlines(src, si + 1)
                  rest == IF Len(dbuf) = 2
                          THEN IF k > Len(src) \/ src[k] # PadChar
                               THEN 0                      \* "==" is expected
                               ELSE k + 1
                          ELSE si + 1
              IN  IF rest = 0 THEN CorruptInput
                  ELSE IF SkipNewlines(src, rest) <= Len(src)
                       THEN CorruptInput                   \* trailing garbage
                       ELSE [ok |-> TRUE,
                             bytes |-> dst \o Quantum(dbuf, Len(dbuf))]

\* base64.StdEncoding.DecodeString(s)
DecodeString(s) == DecodeFrom(s, 1, << >>, << >>)

----------------------------------------------------------------------------
(* Configuration documents and encoding/json.                              *)

\* A JSON value found at a key of the document: kind is "absent" (no such
\* key), "null", "number" or "string"; val is the text of a string.
Absent(zero) == [kind |-> "absent", val |-> zero]
Null(zero)   == [kind |-> "null",   val |-> zero]
Number(zero) == [kind |-> "number", val |-> zero]
Str(v)       == [kind |-> "string", val |-> v]

\* A document: syntax says whether the bytes are a JSON object at all.
Document(ct, body, scope) ==
    [syntax |-> TRUE, contentType |-> ct, body |-> body, scope |-> scope]

NotJSON == [syntax |-> FALSE, contentType |-> Absent(""), body |-> Absent(<< >>),
            scope |-> << "response" >>]

\* Faulty variant of Unmarshal: a document without a contentType key is refused.
UnmarshalRequired(b) ==
    IF ~b.syntax \/ b.contentType.kind = "absent"
    THEN [err |-> "json: missing field",
          msg |-> [ContentType |-> "", Body |-> << >>, Scope |-> << >>]]
    ELSE IF b.contentType.kind = "number" \/ b.body.kind = "number"
    THEN [err |-> "json: cannot unmarshal number into string",
          msg |-> [ContentType |-> "", Body |-> << >>, Scope |-> << >>]]
    ELSE [err |-> "",
          msg |-> [ContentType |-> b.contentType.val,
                   Body        |-> b.body.val,
                   Scope       |-> b.scope]]

\* json.Unmarshal(b, msg) into a zeroed modifierJSON: an absent key or a null
\* leaves the field's zero value, a value of another type is an
\* UnmarshalTypeError.
Unmarshal(b) ==
    LET zero == [ContentType |-> "", Body |-> << >>, Scope |-> << >>] IN
    IF ~b.syntax THEN [err |-> "json: syntax error", msg |-> zero]
    ELSE IF b.contentType.kind = "number" \/ b.body.kind = "number"
    THEN [err |-> "json: cannot unmarshal number into string", msg |-> zero]
    ELSE [err |-> "",
          msg |-> [ContentType |-> IF b.contentType.kind = "string"
                                   THEN b.contentType.val ELSE "",
                   Body        |-> IF b.body.kind = "string"
                                   THEN b.body.val ELSE << >>,
                   Scope       |-> b.scope]]

----------------------------------------------------------------------------
(* Construction.                                                           *)

\* NewModifier(b, contentType): the slice b is stored as it is, not copied.
NewModifier(b, contentType) ==
    [mod |-> [contentType |-> contentType, body |-> b], err |-> ""]

ModifierTypes == {"request", "response"}

\* parse.NewResult(mod, scope): the modifier with the phases it attaches to.
NewResult(mod, scope) ==
    IF \E i \in 1..Len(scope) : scope[i] \notin ModifierTypes
    THEN [result |-> << >>, err |-> "parse: invalid scope"]
    ELSE [result |-> << [mod |-> mod, scope |-> {scope[i] : i \in 1..Len(scope)}] >>,
          err |-> ""]

\* Faulty variant of FromJSON: the error of DecodeString is dropped and the
\* bytes decoded so far are used.
FromJSONIgnoringDecodeError(b, a) ==
    LET u == Unmarshal(b)
        m == NewModifier(a, u.msg.ContentType)
    IN  IF u.err # "" THEN [result |-> << >>, err |-> u.err]
        ELSE NewResult(m.mod, u.msg.Scope)

\* What modifierFromJSON(b) returns, the decoded body being put at address a.
FromJSON(b, a) ==
    LET u    == Unmarshal(b)
        body == DecodeString(u.msg.Body)
        m    == NewModifier(a, u.msg.ContentType)
    IN  IF u.err # "" THEN [result |-> << >>, err |-> u.err]
        ELSE IF ~body.ok THEN [result |-> << >>, err |-> "illegal base64 data"]
        ELSE IF m.err # "" THEN [result |-> << >>, err |-> m.err]
        ELSE NewResult(m.mod, u.msg.Scope)

\* init(): parse.Register("body.Modifier", modifierFromJSON)
Registered == [name \in {"body.Modifier"} |-> "modifierFromJSON"]

\* The loader decodes the next document of the configuration.
ModifierFromJSON ==
    /\ pending # << >>
    /\ "body.Modifier" \in DOMAIN registry
    /\ LET b == Head(pending)
           a == Len(heap) + 1
           r == FromJSON(b, a)
       IN  /\ ret' = r
           /\ pending' = Tail(pending)
           /\ decoded' = Append(decoded, [doc |-> b, err |-> r.err])
           /\ IF r.err = ""
              THEN /\ heap' = Append(heap, DecodeString(Unmarshal(b).msg.Body).bytes)
                   /\ mods' = Append(mods, r.result[1])
                   /\ built' = Append(built,
                          [contentType |-> Unmarshal(b).msg.ContentType,
                           body |-> DecodeString(Unmarshal(b).msg.Body).bytes,
                           doc |-> b])
              ELSE UNCHANGED <<heap, mods, built>>
    /\ UNCHANGED <<registry, caller, ctx, req, res, before, streams, readers,
                   got, phase, calls, outcome, log>>

----------------------------------------------------------------------------
(* net/http: headers, responses and body streams.                          *)

HeaderKeys == {"Content-Type", "Content-Encoding", "X-Other"}

\* An http.Header: nil, or a map from canonical key to its values (no values:
\* the key is not in the map).
MakeHeader(ct, ce) ==
    [nil |-> FALSE,
     m   |-> [k \in HeaderKeys |-> CASE k = "Content-Type"     -> ct
                                     [] k = "Content-Encoding" -> ce
                                     [] OTHER                  -> << "x" >>]]

NilHeader == [nil |-> TRUE, m |-> [k \in HeaderKeys |-> << >>]]

\* h.Set(key, value): the key's values become the single value.
HeaderSet(h, key, value) == [h EXCEPT !.m[key] = << value >>]

\* h.Del(key)
HeaderDel(h, key) == [h EXCEPT !.m[key] = << >>]

\* The zero http.Response, before the round trip has produced one.
NoResponse == [Header |-> NilHeader, Body |-> 0, ContentLength |-> 0]

\* A body stream of the response: what it is, the bytes.Reader it wraps (if
\* any) and how many times Close was called on it.
Upstream(closes) == [kind |-> "upstream", rd |-> << 0, 0 >>, closes |-> closes]
NopCloser(rd)    == [kind |-> "nopCloser", rd |-> rd, closes |-> 0]

\* bytes.NewReader(b): a reader of its own over the slice b, at index 0.
NewReader(b) == [s |-> b, i |-> 0]

Min(a, b) == IF a < b THEN a ELSE b

----------------------------------------------------------------------------
(* The hooks.                                                              *)

\* Faulty variant of SkipRoundTrip: the flag is flipped instead of set.
ToggleRoundTrip(c) == [c EXCEPT !.SkipRoundTrip = ~@]

\* ModifyRequest: ctx.SkipRoundTrip = true
SkipRoundTrip(c) == [c EXCEPT !.SkipRoundTrip = TRUE]

\* Faulty variant of OverrideHeader: Header.Add instead of Set, and no Del.
AddHeader(h, m) == [h EXCEPT !.m["Content-Type"] = Append(@, m.contentType)]

\* Faulty variant of OverrideHeader: the header map is replaced by a new one
\* that holds the Content-Type alone.
ReplaceHeader(h, m) ==
    [nil |-> FALSE,
     m   |-> [k \in HeaderKeys |-> IF k = "Content-Type"
                                   THEN << m.contentType >> ELSE << >>]]

\* ModifyResponse, lines 93-96: Header.Set("Content-Type", m.contentType),
\* Header.Del("Content-Encoding").
OverrideHeader(h, m) ==
    HeaderDel(HeaderSet(h, "Content-Type", m.contentType), "Content-Encoding")

\* ModifyResponse, line 98: int64(len(m.body))
BodyLength(m) == Len(heap[m.body])

\* Faulty variant of CloseBody: the old body is dropped without Close.
LeaveBodyOpen(ss, b) == ss

\* ModifyResponse, line 91: res.Body.Close() on stream b of ss.
CloseBody(ss, b) == [ss EXCEPT ![b].closes = @ + 1]

\* Faulty variant of ReaderOf: one reader per Modifier, made once and installed
\* in every response.
SharedReaderOf(t, n, k) == << 0, k >>

\* ModifyResponse, line 99: the identity of the reader made by the n-th call
\* on transaction t with Modifier k: a new object every call.
ReaderOf(t, n, k) == << t, n >>

\* The events of one ModifyResponse call on the body slot, in program order:
\* stream old is closed (line 91), then stream new is installed (line 99).
BodyEvents(old, new) == << << "close", old >>, << "install", new >> >>

ModifyRequest(t, k) ==
    /\ phase[t] = "request"
    /\ k \in 1..Len(mods)
    /\ "request" \in mods[k].scope
    /\ calls[t].req < MaxReqCalls
    /\ ctx' = [ctx EXCEPT ![t] = SkipRoundTrip(ctx[t])]
    /\ calls' = [calls EXCEPT ![t].req = @ + 1]
    /\ outcome' = [outcome EXCEPT ![t] = "nil"]
    /\ UNCHANGED <<registry, pending, ret, mods, built, decoded, heap, caller,
                   req, res, before, streams, readers, got, phase, log>>

\* The host pipeline: the request hooks are over, a response r exists (from
\* upstream, or made up when SkipRoundTrip is set, or left by other modifiers).
RoundTrip(t, r) ==
    /\ phase[t] = "request"
    /\ phase' = [phase EXCEPT ![t] = "response"]
    /\ res' = [res EXCEPT ![t] = [Header |-> r.Header,
                                  Body |-> IF r.body = "nil" THEN 0 ELSE 1,
                                  ContentLength |-> -1]]
    /\ streams' = [streams EXCEPT ![t] =
                      CASE r.body = "nil"    -> << >>
                        [] r.body = "open"   -> << Upstream(0) >>
                        [] r.body = "closed" -> << Upstream(1) >>]
    /\ UNCHANGED <<registry, pending, ret, mods, built, decoded, heap, caller,
                   ctx, req, before, readers, got, calls, outcome, log>>

ModifyResponse(t, k) ==
    /\ phase[t] = "response"
    /\ k \in 1..Len(mods)
    /\ "response" \in mods[k].scope
    /\ calls[t].res < MaxResCalls
    /\ calls' = [calls EXCEPT ![t].res = @ + 1]
    /\ before' = [before EXCEPT ![t] = res[t]]
    /\ LET m   == mods[k].mod
           old == res[t].Body
           new == Len(streams[t]) + 1
           id  == ReaderOf(t, calls[t].res + 1, k)
       IN  IF old = 0
           THEN \* line 91: Close on a nil Body, a nil dereference
                /\ outcome' = [outcome EXCEPT ![t] = "panic"]
                /\ phase' = [phase EXCEPT ![t] = "aborted"]
                /\ UNCHANGED <<res, streams, readers, got, log>>
           ELSE IF res[t].Header.nil
           THEN \* line 93: Set on a nil map, after the Close of line 91
                /\ outcome' = [outcome EXCEPT ![t] = "panic"]
                /\ phase' = [phase EXCEPT ![t] = "aborted"]
                /\ streams' = [streams EXCEPT ![t] = CloseBody(streams[t], old)]
                /\ log' = [log EXCEPT ![t] = Append(@, << "close", old >>)]
                /\ UNCHANGED <<res, readers, got>>
           ELSE /\ outcome' = [outcome EXCEPT ![t] = "nil"]
                /\ res' = [res EXCEPT ![t] =
                              [Header |-> OverrideHeader(res[t].Header, m),
                               Body |-> new,
                               ContentLength |-> BodyLength(m)]]
                /\ streams' = [streams EXCEPT ![t] =
                                  Append(CloseBody(streams[t], old), NopCloser(id))]
                /\ readers' = IF id \in DOMAIN readers THEN readers
                              ELSE (id :> NewReader(m.body)) @@ readers
                /\ got' = [got EXCEPT ![t] = << >>]
                /\ log' = [log EXCEPT ![t] = @ \o BodyEvents(old, new)]
                /\ UNCHANGED phase
    /\ UNCHANGED <<registry, pending, ret, mods, built, decoded, heap, caller,
                   ctx, req>>

\* The reader of transaction t's body reads into a buffer of n bytes
\* (bytes.Reader.Read: copies what is left from index i on, advances i).
Read(t, n) ==
    /\ phase[t] = "response"
    /\ res[t].Body # 0
    /\ streams[t][res[t].Body].kind = "nopCloser"
    /\ LET id   == streams[t][res[t].Body].rd
           r    == readers[id]
           data == heap[r.s]
           cnt  == Min(n, Len(data) - r.i)
       IN  /\ r.i < Len(data)
           /\ got' = [got EXCEPT ![t] = @ \o SubSeq(data, r.i + 1, r.i + cnt)]
           /\ readers' = [readers EXCEPT ![id].i = @ + cnt]
    /\ UNCHANGED <<registry, pending, ret, mods, built, decoded, heap, caller,
                   ctx, req, res, before, streams, phase, calls, outcome, log>>

----------------------------------------------------------------------------
(* Callers of the exported constructor.                                    *)

\* A caller builds a Modifier from a slice b of its own: body.NewModifier(b,
\* contentType). The caller keeps its reference to b.
Construct(bytes, contentType) ==
    /\ Cardinality(caller) < MaxCallerMods
    /\ LET a == Len(heap) + 1 IN
       /\ heap' = Append(heap, bytes)
       /\ caller' = caller \cup {a}
       /\ mods' = Append(mods, [mod |-> NewModifier(a, contentType).mod,
                                scope |-> ModifierTypes])
       /\ built' = Append(built, [contentType |-> contentType, body |-> bytes,
                                  doc |-> NotJSON])
    /\ UNCHANGED <<registry, pending, ret, decoded, ctx, req, res, before,
                   streams, readers, got, phase, calls, outcome, log>>

\* The caller writes v to element i of a slice it still holds.
CallerWrite(a, i, v) ==
    /\ a \in caller
    /\ i \in 1..Len(heap[a])
    /\ heap[a][i] # v
    /\ heap' = [heap EXCEPT ![a][i] = v]
    /\ UNCHANGED <<registry, pending, ret, mods, built, decoded, caller, ctx, req,
                   res, before, streams, readers, got, phase, calls, outcome, log>>

----------------------------------------------------------------------------
(* Inputs.                                                                 *)

\* Characters of body texts: two of the alphabet, the padding, a newline and
\* one outside the alphabet.
Chars == {"Q", "/", "=", "\n", "!"}

RECURSIVE TextsOfLen(_)
TextsOfLen(n) ==
    IF n = 0 THEN { << >> }
    ELSE { Append(s, c) : s \in TextsOfLen(n - 1), c \in Chars }

Texts == UNION { TextsOfLen(n) : n \in 0..MaxLen }

ContentTypes == {Absent(""), Str(""), Str("text/plain")}

\* Every document over the texts and content types, and documents that are
\* not JSON or hold a null, a number or nothing where a string is expected.
AllDocuments ==
    { Document(ct, Str(b), << "request", "response" >>) :
          ct \in ContentTypes, b \in Texts }
    \cup { NotJSON,
           Document(Null(""), Str(<< "Q", "Q", "Q", "Q" >>), << "response" >>),
           Document(Number(""), Str(<< "Q", "Q", "Q", "Q" >>), << "response" >>),
           Document(Str("text/plain"), Null(<< >>), << "response" >>),
           Document(Str("text/plain"), Number(<< >>), << "response" >>),
           Document(Str("text/plain"), Absent(<< >>), << "response" >>) }

\* A few documents, of every scope: bodies of 2, 0 and 1 bytes, one undecodable.
SomeDocuments ==
    { Document(Str("text/plain"), Str(<< "Q", "/", "Q", "=" >>), << "request", "response" >>),
      Document(Absent(""), Str(<< >>), << "response" >>),
      Document(Str("a"), Str(<< "/", "Q", "=", "=" >>), << "request" >>),
      Document(Str("a"), Str(<< "Q", "=" >>), << "response" >>) }

\* Documents of a Modifier that several transactions share: 3 bytes, 1 byte.
SharedDocuments ==
    { Document(Str("text/plain"), Str(<< "Q", "/", "Q", "/" >>), << "response" >>),
      Document(Str("a"), Str(<< "/", "Q", "=", "=" >>), << "response" >>) }

\* The responses the pipeline hands to the response hooks.
Responses ==
    { [Header |-> MakeHeader(ct, ce), body |-> b] :
          ct \in { << >>, << "a" >>, << "a", "b" >> },
          ce \in { << >>, << "gzip" >> },
          b  \in { "nil", "open", "closed" } }
    \cup { [Header |-> NilHeader, body |-> "open"] }

PlainResponse == [Header |-> MakeHeader(<< "a" >>, << "gzip" >>), body |-> "open"]

SeqsUpTo(S, n) == UNION { [1..k -> S] : k \in 0..n }

----------------------------------------------------------------------------
(* Specifications.                                                         *)

\* The state after init(): the decoder is registered, a configuration of P is
\* to be loaded, no transaction has started; the transactions of F may come
\* with SkipRoundTrip already set (by a modifier earlier in the chain).
InitWith(P, F) ==
    /\ registry = Registered
    /\ pending \in P
    /\ ret = [result |-> << >>, err |-> ""]
    /\ mods = << >>
    /\ built = << >>
    /\ decoded = << >>
    /\ heap = << >>
    /\ caller = {}
    /\ ctx \in { c \in [Txns -> [SkipRoundTrip : BOOLEAN]] :
                   \A t \in Txns \ F : ~c[t].SkipRoundTrip }
    /\ req = [t \in Txns |-> [Method |-> "GET", Header |-> MakeHeader(<< >>, << >>)]]
    /\ res = [t \in Txns |-> NoResponse]
    /\ before = [t \in Txns |-> NoResponse]
    /\ streams = [t \in Txns |-> << >>]
    /\ readers = [id \in {} |-> NewReader(0)]
    /\ got = [t \in Txns |-> << >>]
    /\ phase = [t \in Txns |-> "request"]
    /\ calls = [t \in Txns |-> [req |-> 0, res |-> 0]]
    /\ outcome = [t \in Txns |-> "none"]
    /\ log = [t \in Txns |-> << >>]

\* The response phase of the pipeline, for the transactions of T and the
\* responses R.
ResponsePhase(T, R) ==
    \/ \E t \in T, r \in R : RoundTrip(t, r)
    \/ \E t \in T, k \in 1..MaxMods : ModifyResponse(t, k)
    \/ \E t \in T, n \in 1..MaxRead : Read(t, n)

\* The whole pipeline.
Pipeline(T, R) ==
    \/ ResponsePhase(T, R)
    \/ \E t \in T, k \in 1..MaxMods : ModifyRequest(t, k)

\* One transaction, any response, a configuration of a few documents.
Init == InitWith(SeqsUpTo(SomeDocuments, MaxMods), {1})
Next == ModifierFromJSON \/ Pipeline({1}, Responses)
Spec == Init /\ [][Next]_vars

\* A configuration of any one document, or of a good document followed by one
\* of a few; a transaction on one of three responses.
GoodDocument == Document(Str("a"), Str(<< "/", "Q", "=", "=" >>), << "response" >>)

DecodeResponses ==
    { PlainResponse,
      [Header |-> MakeHeader(<< >>, << >>), body |-> "closed"],
      [Header |-> MakeHeader(<< "a", "b" >>, << >>), body |-> "nil"] }

InitDecode ==
    InitWith({ << d >> : d \in AllDocuments }
                 \cup { << GoodDocument, d >> : d \in SomeDocuments \cup {NotJSON} },
             {})
NextDecode == ModifierFromJSON \/ Pipeline({1}, DecodeResponses)
SpecDecode == InitDecode /\ [][NextDecode]_vars

\* Concurrent transactions sharing the Modifiers of one configuration.
InitShared == InitWith({ << d >> : d \in SharedDocuments }, {})
NextShared == ModifierFromJSON \/ ResponsePhase(Txns, {PlainResponse})
SpecShared == InitShared /\ [][NextShared]_vars

\* A caller that builds Modifiers from its own slices and writes to them later.
SomeBytes == {65, 66}

InitAlias == InitWith({ << GoodDocument >> }, {})
NextAlias ==
    \/ ModifierFromJSON
    \/ Pipeline({1}, {PlainResponse})
    \/ \E b \in SeqsUpTo(SomeBytes, MaxSlice) : Construct(b, "text/plain")
    \/ \E a \in caller, i \in 1..MaxSlice, v \in SomeBytes : CallerWrite(a, i, v)
SpecAlias == InitAlias /\ [][NextAlias]_vars

----------------------------------------------------------------------------
(* Notions the properties are stated in.                                   *)

AlphabetChars == { B64Alphabet[i] : i \in 1..64 }

\* Standard padded base64 (RFC 4648, section 4): a multiple of four
\* characters, all of the alphabet but for one or two "=" at the very end.
ValidBase64(s) ==
    LET n    == Len(s)
        pads == IF n >= 1 /\ s[n] = "="
                THEN IF n >= 2 /\ s[n - 1] = "=" THEN 2 ELSE 1
                ELSE 0
    IN  /\ n % 4 = 0
        /\ \A i \in 1..(n - pads) : s[i] \in AlphabetChars

\* base64_decode, by its definition: the 6-bit groups of the characters, put
\* end to end and cut into whole octets.
SixBits(c) ==
    LET v == CHOOSE i \in 0..63 : B64Alphabet[i + 1] = c
    IN  << (v \div 32) % 2, (v \div 16) % 2, (v \div 8) % 2,
           (v \div 4) % 2, (v \div 2) % 2, v % 2 >>

RECURSIVE BitsOf(_)
BitsOf(s) ==
    IF s = << >> THEN << >>
    ELSE IF Head(s) = "=" THEN BitsOf(Tail(s))
    ELSE SixBits(Head(s)) \o BitsOf(Tail(s))

Base64Decode(s) ==
    LET bits == BitsOf(s)
        o(j)  == 8 * (j - 1)
    IN  [j \in 1..(Len(bits) \div 8) |->
            bits[o(j) + 1] * 128 + bits[o(j) + 2] * 64 + bits[o(j) + 3] * 32
          + bits[o(j) + 4] * 16  + bits[o(j) + 5] * 8  + bits[o(j) + 6] * 4
          + bits[o(j) + 7] * 2   + bits[o(j) + 8]]

StripNewlines(s) == SelectSeq(s, LAMBDA c : ~IsNewline(c))

\* The document does not deserialize into the declaration: it is not a JSON
\* object, or a string field holds a value of another type.
Malformed(b) ==
    \/ ~b.syntax
    \/ b.contentType.kind = "number"
    \/ b.body.kind = "number"

\* ModifyResponse has returned on transaction t (and did not panic).
Done(t) == phase[t] = "response" /\ calls[t].res >= 1

\* The reader installed in res[t], and the Modifier whose body it reads.
BodyReader(t) == readers[streams[t][res[t].Body].rd]
LastMod(t) == CHOOSE k \in 1..Len(mods) : mods[k].mod.body = BodyReader(t).s

Prefix(s, n) == SubSeq(s, 1, n)

----------------------------------------------------------------------------
(* Properties.                                                             *)

\* C1: for a document whose body text s is valid base64, once ModifyResponse
\* has returned, ContentLength is len(base64_decode(s)), the installed stream
\* holds exactly that many bytes, and what has been read of it is
\* base64_decode(s) from its first byte on: all of it when the stream is at
\* its end. (SpecDecode)
C1_BodyIsDecodedText ==
    \A t \in Txns :
        Done(t) =>
            LET doc  == built[LastMod(t)].doc
                want == Base64Decode(doc.body.val)
                r    == BodyReader(t)
            IN  (doc.syntax /\ doc.body.kind = "string" /\ ValidBase64(doc.body.val)) =>
                    /\ res[t].ContentLength = Len(want)
                    /\ Len(heap[r.s]) = Len(want)
                    /\ r.i = Len(got[t])
                    /\ got[t] = Prefix(want, Len(got[t]))
                    /\ (r.i = Len(heap[r.s]) => got[t] = want)

\* C1, its case: a three-byte body read to the end.
C1_Witness ==
    \E t \in Txns :
        /\ Done(t)
        /\ built[LastMod(t)].doc.body.kind = "string"
        /\ ValidBase64(built[LastMod(t)].doc.body.val)
        /\ Len(got[t]) = 3
        /\ got[t] = Base64Decode(built[LastMod(t)].doc.body.val)
        /\ res[t].ContentLength = 3

\* C2: once ModifyResponse has returned, Content-Type is the single value
\* the Modifier was configured with and no Content-Encoding is left, whatever
\* the headers were before. (Spec)
C2_HeadersOverridden ==
    \A t \in Txns :
        Done(t) =>
            /\ res[t].Header.m["Content-Type"] = << built[LastMod(t)].contentType >>
            /\ res[t].Header.m["Content-Encoding"] = << >>

\* C2, its case: a response that came with two Content-Type values and a
\* Content-Encoding.
C2_Witness ==
    \E t \in Txns :
        /\ Done(t)
        /\ before[t].Header.m["Content-Type"] = << "a", "b" >>
        /\ before[t].Header.m["Content-Encoding"] = << "gzip" >>
        /\ res[t].Header.m["Content-Type"] = << "text/plain" >>

\* C3: with one Modifier serving several transactions, the read position of
\* each transaction's body is the number of bytes that transaction itself has
\* read, and those bytes are the stored body from its first byte on.
\* (SpecShared)
C3_ReadersIndependent ==
    \A t \in Txns :
        Done(t) =>
            /\ BodyReader(t).i = Len(got[t])
            /\ got[t] = Prefix(heap[mods[LastMod(t)].mod.body], Len(got[t]))

\* C3, its case: two transactions on the same Modifier at different read
\* positions, one of them at its end.
C3_Witness ==
    \E t, u \in Txns :
        /\ t # u /\ Done(t) /\ Done(u)
        /\ LastMod(t) = LastMod(u)
        /\ Len(heap[mods[LastMod(t)].mod.body]) = 3
        /\ Len(got[t]) = 3
        /\ Len(got[u]) = 1

\* C4: every ModifyRequest call leaves SkipRoundTrip true, a call after the
\* first changes nothing at all in the transaction, and no call changes
\* anything but the flag. (Spec)
C4_RequestHookIdempotent ==
    [][\A t \in Txns :
          calls'[t].req # calls[t].req =>
              /\ ctx'[t].SkipRoundTrip
              /\ (calls[t].req >= 1 => ctx'[t] = ctx[t])
              /\ \A u \in Txns \ {t} : ctx'[u] = ctx[u]
              /\ UNCHANGED <<req, res, streams, readers, got, phase, mods, heap,
                             registry, log>>]_vars

\* C4, its case: the hook has run twice on a transaction.
C4_Witness == \E t \in Txns : calls[t].req >= 2 /\ ctx[t].SkipRoundTrip

\* C5 as stated: every document that is malformed or whose body is not valid
\* standard padded base64 is refused.
C5_AsStated ==
    \A i \in 1..Len(decoded) :
        (Malformed(decoded[i].doc) \/ ~ValidBase64(decoded[i].doc.body.val))
            => decoded[i].err # ""

\* C5, amended: a document that is malformed, or whose body with its CR and
\* LF characters left out is not valid standard padded base64, is refused:
\* modifierFromJSON returns a nil result and a non-nil error, and neither the
\* registry nor the Modifiers built before change. (SpecDecode)
C5_InvalidRefused ==
    [][pending' # pending =>
          LET b == Head(pending) IN
          (Malformed(b) \/ ~ValidBase64(StripNewlines(b.body.val))) =>
              /\ ret'.result = << >>
              /\ ret'.err # ""
              /\ decoded'[Len(decoded')].err = ret'.err
              /\ UNCHANGED <<mods, heap, registry>>]_vars

\* C5, its case: a document with an undecodable body is refused after a
\* Modifier was built.
C5_Witness ==
    /\ Len(decoded) = 2
    /\ Len(mods) = 1
    /\ ~Malformed(decoded[2].doc)
    /\ ~ValidBase64(StripNewlines(decoded[2].doc.body.val))
    /\ ret.result = << >>
    /\ ret.err = "illegal base64 data"

\* C6 as stated: no hook call ever fails, whatever response it is given.
C6_HooksNeverFail == \A t \in Txns : outcome[t] # "panic"

\* C7 as stated: every Modifier's content type and body are what it was
\* constructed with. (SpecAlias)
C7_ModifierImmutable ==
    \A k \in 1..Len(mods) :
        /\ mods[k].mod.contentType = built[k].contentType
        /\ heap[mods[k].mod.body] = built[k].body

\* C8: a document without a contentType key (and otherwise well formed) is
\* decoded without error into a Modifier whose content type is "", and
\* ModifyResponse with it leaves Content-Type present with the one value "".
\* (SpecDecode)
C8_AbsentContentType ==
    /\ \A i \in 1..Len(decoded) :
           LET b == decoded[i].doc IN
           (  /\ b.contentType.kind = "absent"
              /\ ~Malformed(b)
              /\ ValidBase64(b.body.val)) => decoded[i].err = ""
    /\ \A k \in 1..Len(mods) :
           (built[k].doc.syntax /\ built[k].doc.contentType.kind = "absent")
               => mods[k].mod.contentType = ""
    /\ \A t \in Txns :
           (  /\ Done(t)
              /\ built[LastMod(t)].doc.syntax
              /\ built[LastMod(t)].doc.contentType.kind = "absent")
               => res[t].Header.m["Content-Type"] = << "" >>

\* C8, its case: such a Modifier has overridden a response that had a
\* Content-Type.
C8_Witness ==
    \E t \in Txns :
        /\ Done(t)
        /\ built[LastMod(t)].doc.syntax
        /\ built[LastMod(t)].doc.contentType.kind = "absent"
        /\ before[t].Header.m["Content-Type"] = << "a" >>
        /\ res[t].Header.m["Content-Type"] = << "" >>

\* The stream in the body slot after the first j events of l (stream 1 is the
\* one the response came with).
RECURSIVE Installed(_, _)
Installed(l, j) ==
    IF j = 0 THEN 1
    ELSE IF l[j][1] = "install" THEN l[j][2]
    ELSE Installed(l, j - 1)

Closes(l, s) == Cardinality({ j \in 1..Len(l) : l[j] = << "close", s >> })

\* C9: every installation of a new body is directly preceded by the Close of
\* the stream that was in the slot, ModifyResponse closes no stream twice, and
\* every stream but the one now installed has been closed by it. (Spec)
C9_OldBodyClosedFirst ==
    \A t \in Txns :
        /\ \A j \in 1..Len(log[t]) :
               log[t][j][1] = "install" =>
                   /\ j >= 2
                   /\ log[t][j - 1] = << "close", Installed(log[t], j - 2) >>
        /\ \A s \in 1..Len(streams[t]) :
               /\ Closes(log[t], s) <= 1
               /\ s # res[t].Body =>
                      (Closes(log[t], s) = 1 /\ streams[t][s].closes >= 1)

\* C9, its case: two ModifyResponse calls on one response, the second
\* replacing the stream the first installed.
C9_Witness ==
    \E t \in Txns :
        /\ Done(t)
        /\ calls[t].res = 2
        /\ res[t].Body = 3
        /\ streams[t][1].closes >= 1
        /\ streams[t][2].closes = 1
        /\ streams[t][3].closes = 0

\* C10: a ModifyResponse call that returns changes, besides Content-Type,
\* Content-Encoding, ContentLength and Body, no header and neither the context
\* nor the request; a ModifyRequest call changes the flag of its transaction
\* alone; after both, the flag is set and the response is overridden. (Spec)
C10_DisjointEffects ==
    [][\A t \in Txns :
          /\ calls'[t].res # calls[t].res =>
                 /\ UNCHANGED <<ctx, req, mods, heap, registry>>
                 /\ \A u \in Txns \ {t} : res'[u] = res[u] /\ streams'[u] = streams[u]
                 /\ outcome'[t] = "nil" =>
                        /\ res'[t].Header.nil = res[t].Header.nil
                        /\ \A h \in HeaderKeys \ {"Content-Type", "Content-Encoding"} :
                               res'[t].Header.m[h] = res[t].Header.m[h]
          /\ calls'[t].req # calls[t].req =>
                 /\ UNCHANGED <<req, res, streams, readers, got, mods, heap, registry>>
                 /\ \A u \in Txns \ {t} : ctx'[u] = ctx[u]
          /\ (calls'[t].req >= 1 /\ phase'[t] = "response" /\ calls'[t].res >= 1) =>
                 /\ ctx'[t].SkipRoundTrip
                 /\ res'[t].Header.m["Content-Type"]
                        = << mods'[LastMod(t)'].mod.contentType >>
                 /\ res'[t].ContentLength = Len(heap'[mods'[LastMod(t)'].mod.body])]_vars

\* C10, its case: both hooks have run on one transaction.
C10_Witness ==
    \E t \in Txns :
        /\ calls[t].req >= 1
        /\ Done(t)
        /\ ctx[t].SkipRoundTrip
        /\ before[t].Header.m["Content-Encoding"] = << "gzip" >>
        /\ res[t].Header.m["X-Other"] = << "x" >>

====
